---- MODULE Spec2Model ----
(***************************************************************************)
(* Retail Markdown Optimization Assistant: one run of streamlit_app.main() *)
(* over a catalog (the CSV file), as a state machine.                      *)
(*                                                                         *)
(* Units.  The code works in floating point; the model works in exact      *)
(* integers.  A markdown fraction m is held as the percentage 100*m, so    *)
(* the column Revenue holds 100 * revenue (hundredths of a currency unit)  *)
(* and Sell_through is held as a reduced fraction [num, den].              *)
(***************************************************************************)
EXTENDS Integers, Sequences, FiniteSets, TLC

(***************************************************************************)
(* Bounds of the model.                                                    *)
(***************************************************************************)
MaxProducts == 2

(***************************************************************************)
(* The catalog's value domains.                                            *)
(***************************************************************************)
Stages == <<"M1", "M2", "M3", "M4">>

StageSet == {Stages[i] : i \in 1..4}

ProductNames == {"Serum"}

Brands == {"Acme", "Zen"}

\* sorted(...) of the values: the order Python's sorted() gives these strings
CategoryOrder == <<"Outerwear", "Skincare">>

SeasonOrder == <<"Summer", "Winter">>

Categories == {CategoryOrder[i] : i \in 1..Len(CategoryOrder)}

Seasons == {SeasonOrder[i] : i \in 1..Len(SeasonOrder)}

\* price, stock, the optimal-discount label (percent), the four markdowns
\* (percent) and the four sales figures
\*  - the first is the worked example of the revenue formula (price 100,
\*    markdown 0.2, sales 50, stock 200), with equal revenue at M1 and M3,
\*    lower revenue at M2 and M4, and the greatest sell-through at M4;
\*  - the second has no stock, earns most at M4, and has revenues with a
\*    fractional part of one half (157.50 at M2, 202.50 at M4).
StageProfiles ==
    { [Original_Price |-> 100, Stock_Level |-> 200, Optimal_Discount |-> 20,
       Markdown |-> <<20, 30, 50, 60>>, Sales_After |-> <<50, 40, 80, 90>>],
      [Original_Price |-> 45, Stock_Level |-> 0, Optimal_Discount |-> 10,
       Markdown |-> <<40, 30, 20, 10>>, Sales_After |-> <<5, 5, 5, 5>>] }

\* one row of the CSV, without its identifier
RowDomain ==
    { [Product_Name |-> n, Brand |-> b, Category |-> c, Season |-> s,
       Original_Price |-> p.Original_Price, Stock_Level |-> p.Stock_Level,
       Optimal_Discount |-> p.Optimal_Discount,
       Markdown |-> p.Markdown, Sales_After |-> p.Sales_After] :
        n \in ProductNames, b \in Brands, c \in Categories, s \in Seasons,
        p \in StageProfiles }

\* a ProductRecord: the row with its unique Product_ID
ProductRecord(r, id) ==
    [Product_ID |-> id, Product_Name |-> r.Product_Name, Brand |-> r.Brand,
     Category |-> r.Category, Season |-> r.Season,
     Original_Price |-> r.Original_Price, Stock_Level |-> r.Stock_Level,
     Optimal_Discount |-> r.Optimal_Discount,
     Markdown |-> r.Markdown, Sales_After |-> r.Sales_After]

\* every CSV of at most MaxProducts rows, identifiers unique
Catalogs ==
    UNION { { [i \in 1..n |-> ProductRecord(rows[i], i)] :
                rows \in [1..n -> RowDomain] } : n \in 0..MaxProducts }

(***************************************************************************)
(* Arithmetic.                                                             *)
(***************************************************************************)
RECURSIVE GCD(_, _)
GCD(a, b) == IF b = 0 THEN a ELSE GCD(b, a % b)

\* the quotient n / d (d > 0) as a reduced fraction
Frac(n, d) == LET g == GCD(n, d) IN [num |-> n \div g, den |-> d \div g]

FracZero == [num |-> 0, den |-> 1]

FracLess(a, b) == a.num * b.den < b.num * a.den

IntLess(a, b) == a < b

\* Series.round(0) of x / 100: numpy rounds halves to the even neighbour
Round0(x) ==
    LET q == x \div 100
        r == x % 100
    IN  IF r < 50 THEN q
        ELSE IF r > 50 THEN q + 1
        ELSE IF q % 2 = 0 THEN q ELSE q + 1

\* DataFrame.empty
Empty(frame) == Len(frame) = 0

RECURSIVE SumRevenue(_)
SumRevenue(rows) ==
    IF rows = <<>> THEN 0 ELSE Head(rows).Revenue + SumRevenue(Tail(rows))

RECURSIVE SumDiscount(_)
SumDiscount(rows) ==
    IF rows = <<>> THEN 0
    ELSE Head(rows).Optimal_Discount + SumDiscount(Tail(rows))

\* the column `col` of a frame, as a set (Series.unique())
Unique(frame, col) == {frame[i][col] : i \in 1..Len(frame)}

\* sorted(values): the members of `values` in the order of `order`
RECURSIVE Sorted(_, _)
Sorted(values, order) ==
    IF order = <<>> THEN <<>>
    ELSE (IF Head(order) \in values THEN <<Head(order)>> ELSE <<>>)
         \o Sorted(values, Tail(order))

(***************************************************************************)
(* compute_stage_metrics (src/markdown_metrics.py is not in the            *)
(* repository snapshot): the expansion the specification describes, with   *)
(* the columns streamlit_app.py reads from its result.                     *)
(***************************************************************************)
\* a slip: the markdown taken for the price factor
StageMetricMarkdownPrice(rec, i) ==
    [Product_ID |-> rec.Product_ID,
     Product_Name |-> rec.Product_Name,
     Brand |-> rec.Brand,
     Category |-> rec.Category,
     Season |-> rec.Season,
     Stage |-> Stages[i],
     Markdown |-> rec.Markdown[i],
     Sales |-> rec.Sales_After[i],
     Revenue |-> rec.Original_Price * rec.Markdown[i] * rec.Sales_After[i],
     Sell_through |-> IF rec.Stock_Level > 0
                      THEN Frac(rec.Sales_After[i], rec.Stock_Level)
                      ELSE FracZero]

StageMetric(rec, i) ==
    [Product_ID |-> rec.Product_ID,
     Product_Name |-> rec.Product_Name,
     Brand |-> rec.Brand,
     Category |-> rec.Category,
     Season |-> rec.Season,
     Stage |-> Stages[i],
     Markdown |-> rec.Markdown[i],
     Sales |-> rec.Sales_After[i],
     Revenue |-> rec.Original_Price * (100 - rec.Markdown[i]) * rec.Sales_After[i],
     Sell_through |-> IF rec.Stock_Level > 0
                      THEN Frac(rec.Sales_After[i], rec.Stock_Level)
                      ELSE FracZero]

\* a slip: the loop over the stages stops before M4
compute_stage_metrics_three(catalog) ==
    [k \in 1..(3 * Len(catalog)) |->
        StageMetric(catalog[((k - 1) \div 3) + 1], ((k - 1) % 3) + 1)]

compute_stage_metrics(catalog) ==
    [k \in 1..(4 * Len(catalog)) |->
        StageMetric(catalog[((k - 1) \div 4) + 1], ((k - 1) % 4) + 1)]

(***************************************************************************)
(* The filters of main().                                                  *)
(***************************************************************************)
\* df[df["Category"].isin(cats) & df["Season"].isin(seasons)]
FilterDf(frame, cats, seasons) ==
    LET Keep(r) == r.Category \in cats /\ r.Season \in seasons
    IN  SelectSeq(frame, Keep)

\* a slip: the season test left out of the second filter
FilterLongByCategory(frame, cats, seasons) ==
    LET Keep(r) == r.Category \in cats
    IN  SelectSeq(frame, Keep)

\* metrics_long[metrics_long["Category"].isin(cats) & metrics_long["Season"].isin(seasons)]
FilterLong(frame, cats, seasons) ==
    LET Keep(r) == r.Category \in cats /\ r.Season \in seasons
    IN  SelectSeq(frame, Keep)

(***************************************************************************)
(* The state of one run of main().                                         *)
(***************************************************************************)
VARIABLES
    pc,                   \* the position in main()
    csv,                  \* the file load_markdown_data() reads
    df,                   \* the catalog as loaded
    metrics_long,         \* compute_stage_metrics(df)
    selected_categories,  \* the sidebar's Category multiselect
    selected_seasons,     \* the sidebar's Season multiselect
    filtered_df,
    filtered_long,
    highlight,            \* the three st.metric values, when shown
    tab1,                 \* the tables of the dashboard tab, when shown
    tab2,                 \* the product drill-down, when shown
    info,                 \* the st.info messages shown
    raised                \* the exception that ended the run, or "none"

vars == <<pc, csv, df, metrics_long, selected_categories, selected_seasons,
          filtered_df, filtered_long, highlight, tab1, tab2, info, raised>>

Init ==
    /\ pc = "load"
    /\ csv \in Catalogs
    /\ df = <<>>
    /\ metrics_long = <<>>
    /\ selected_categories = {}
    /\ selected_seasons = {}
    /\ filtered_df = <<>>
    /\ filtered_long = <<>>
    /\ highlight = [shown |-> FALSE]
    /\ tab1 = [shown |-> FALSE]
    /\ tab2 = [shown |-> FALSE]
    /\ info = {}
    /\ raised = "none"

\* lines 73-74
Load ==
    /\ pc = "load"
    /\ df' = csv
    /\ metrics_long' = compute_stage_metrics(csv)
    /\ pc' = "filter"
    /\ UNCHANGED <<csv, selected_categories, selected_seasons, filtered_df,
                   filtered_long, highlight, tab1, tab2, info, raised>>

\* lines 79-96
Filter ==
    /\ pc = "filter"
    /\ LET category_options == Sorted(Unique(df, "Category"), CategoryOrder)
           season_options == Sorted(Unique(df, "Season"), SeasonOrder)
       IN  \E cats \in SUBSET {category_options[i] : i \in 1..Len(category_options)},
              seas \in SUBSET {season_options[i] : i \in 1..Len(season_options)} :
                /\ selected_categories' = cats
                /\ selected_seasons' = seas
                /\ filtered_df' = FilterDf(df, cats, seas)
                /\ filtered_long' = FilterLong(metrics_long, cats, seas)
    /\ pc' = "highlight"
    /\ UNCHANGED <<csv, df, metrics_long, highlight, tab1, tab2, info, raised>>

(***************************************************************************)
(* Grouped sums and pivots.                                                *)
(***************************************************************************)
\* frame.groupby("Stage")["Revenue"].sum(): one entry per stage that has rows.
\* After .reindex(["M1", "M2", "M3", "M4"]) a stage without rows is NaN: a
\* stage outside the DOMAIN of the result.
StageRevenue(frame) ==
    [s \in Unique(frame, "Stage") |->
        LET InStage(r) == r.Stage = s IN SumRevenue(SelectSeq(frame, InStage))]

\* Series.idxmax() over the index M1..M4: NaN entries are skipped, and of
\* equal maxima the first in index order is kept
RECURSIVE IdxMaxScan(_, _, _)
IdxMaxScan(series, i, best) ==
    IF i > 4 THEN best
    ELSE LET s == Stages[i]
         IN  IdxMaxScan(series, i + 1,
                IF s \notin DOMAIN series THEN best
                ELSE IF best = "NaN" THEN s
                ELSE IF series[best] < series[s] THEN s ELSE best)

\* a slip: of equal maxima the last is kept
RECURSIVE IdxMaxLastScan(_, _, _)
IdxMaxLastScan(series, i, best) ==
    IF i > 4 THEN best
    ELSE LET s == Stages[i]
         IN  IdxMaxLastScan(series, i + 1,
                IF s \notin DOMAIN series THEN best
                ELSE IF best = "NaN" THEN s
                ELSE IF series[best] <= series[s] THEN s ELSE best)

IdxMaxLast(series) == IdxMaxLastScan(series, 1, "NaN")

IdxMax(series) == IdxMaxScan(series, 1, "NaN")

\* Series.max(): NaN entries are skipped
SeriesMax(series) ==
    IF DOMAIN series = {} THEN "NaN"
    ELSE CHOOSE v \in {series[s] : s \in DOMAIN series} :
            \A s \in DOMAIN series : series[s] <= v

\* a slip: .first() for .sum()
GroupRevenueFirst(frame, k1, k2) ==
    [p \in {<<frame[i][k1], frame[i][k2]>> : i \in 1..Len(frame)} |->
        LET InGroup(r) == r[k1] = p[1] /\ r[k2] = p[2]
        IN  Head(SelectSeq(frame, InGroup)).Revenue]

\* frame.groupby([k1, k2], as_index=False)["Revenue"].sum(): one entry per
\* observed pair of keys
GroupRevenue(frame, k1, k2) ==
    [p \in {<<frame[i][k1], frame[i][k2]>> : i \in 1..Len(frame)} |->
        LET InGroup(r) == r[k1] = p[1] /\ r[k2] = p[2]
        IN  SumRevenue(SelectSeq(frame, InGroup))]

\* a slip: .astype(int) without .round(0), which truncates
PivotTruncated(groups) ==
    LET index == {p[1] : p \in DOMAIN groups}
        columns == {p[2] : p \in DOMAIN groups}
    IN  [p \in index \X columns |->
            IF p \in DOMAIN groups THEN groups[p] \div 100 ELSE 0]

\* groups.pivot(index=k1, columns=k2, values="Revenue").fillna(0).round(0).astype(int)
Pivot(groups) ==
    LET index == {p[1] : p \in DOMAIN groups}
        columns == {p[2] : p \in DOMAIN groups}
    IN  [p \in index \X columns |->
            IF p \in DOMAIN groups THEN Round0(groups[p]) ELSE 0]

\* a slip: the highlight computed without the guard of line 99
HighlightUnguarded ==
    /\ pc = "highlight"
    /\ LET stage_rev == StageRevenue(filtered_long)
       IN  highlight' =
               [shown |-> TRUE,
                best_stage |-> IdxMax(stage_rev),
                best_stage_rev |-> SeriesMax(stage_rev),
                avg_opt_disc |-> IF Empty(filtered_df) THEN FracZero
                                 ELSE Frac(SumDiscount(filtered_df), Len(filtered_df))]
    /\ pc' = "tab1"
    /\ UNCHANGED <<csv, df, metrics_long, selected_categories, selected_seasons,
                   filtered_df, filtered_long, tab1, tab2, info, raised>>

\* lines 99-110
Highlight ==
    /\ pc = "highlight"
    /\ IF ~Empty(filtered_long) /\ ~Empty(filtered_df)
       THEN LET stage_rev == StageRevenue(filtered_long)
                best_stage == IdxMax(stage_rev)
            IN  highlight' =
                    [shown |-> TRUE,
                     best_stage |-> best_stage,
                     best_stage_rev |-> SeriesMax(stage_rev),
                     avg_opt_disc |-> Frac(SumDiscount(filtered_df), Len(filtered_df))]
       ELSE highlight' = [shown |-> FALSE]
    /\ pc' = "tab1"
    /\ UNCHANGED <<csv, df, metrics_long, selected_categories, selected_seasons,
                   filtered_df, filtered_long, tab1, tab2, info, raised>>

\* lines 140-220 (the bar chart of lines 157-204 draws rev_by_cat_stage and
\* leaves nothing the rest of main() reads)
Tab1 ==
    /\ pc = "tab1"
    /\ IF Empty(filtered_long)
       THEN /\ info' = info \cup {"No data for the selected filters."}
            /\ tab1' = [shown |-> FALSE]
       ELSE LET rev_by_cat_stage == GroupRevenue(filtered_long, "Category", "Stage")
                heat == GroupRevenue(filtered_long, "Category", "Season")
            IN  /\ tab1' = [shown |-> TRUE,
                            rev_by_cat_stage |-> rev_by_cat_stage,
                            rev_pivot |-> Pivot(rev_by_cat_stage),
                            heat |-> heat,
                            heat_pivot |-> Pivot(heat)]
                /\ info' = info
    /\ pc' = "tab2"
    /\ UNCHANGED <<csv, df, metrics_long, selected_categories, selected_seasons,
                   filtered_df, filtered_long, highlight, tab2, raised>>

(***************************************************************************)
(* The product drill-down.                                                 *)
(***************************************************************************)
\* prod_subset["Product_Name"] + " | " + prod_subset["Brand"] + " | " + prod_subset["Season"]
product_label(r) == r.Product_Name \o " | " \o r.Brand \o " | " \o r.Season

\* lines 243-247
ProdSubset(frame, sel_cat, sel_brand) ==
    LET Keep(r) == /\ (sel_cat # "All" => r.Category = sel_cat)
                   /\ (sel_brand # "All" => r.Brand = sel_brand)
    IN  SelectSeq(frame, Keep)

\* prod_subset[prod_subset["product_label"] == selected_label].iloc[0]
FirstWithLabel(prod_subset, selected_label) ==
    LET Labelled(r) == product_label(r) = selected_label
    IN  Head(SelectSeq(prod_subset, Labelled))

\* lines 289-293: the rows of metrics_long with the row's name, brand and
\* season, cut to the five displayed columns
LookupMetrics(metrics, row) ==
    LET Match(m) == /\ m.Product_Name = row.Product_Name
                    /\ m.Brand = row.Brand
                    /\ m.Season = row.Season
        found == SelectSeq(metrics, Match)
    IN  [k \in 1..Len(found) |->
            [Stage |-> found[k].Stage, Markdown |-> found[k].Markdown,
             Sales |-> found[k].Sales, Revenue |-> found[k].Revenue,
             Sell_through |-> found[k].Sell_through]]

\* sort_values("Stage").reset_index(drop=True): rows of equal Stage keep
\* their order (numpy sorts fewer than 17 keys by insertion)
RECURSIVE SortByStageFrom(_, _)
SortByStageFrom(rows, i) ==
    IF i > 4 THEN <<>>
    ELSE LET InStage(r) == r.Stage = Stages[i]
         IN  SelectSeq(rows, InStage) \o SortByStageFrom(rows, i + 1)

SortByStage(rows) == SortByStageFrom(rows, 1)

\* lines 296-297: the display columns
WithDisplayColumns(rows) ==
    [k \in 1..Len(rows) |->
        [Stage |-> rows[k].Stage, Markdown |-> rows[k].Markdown,
         Sales |-> rows[k].Sales, Revenue |-> rows[k].Revenue,
         Sell_through |-> rows[k].Sell_through,
         Markdown_pct |-> rows[k].Markdown,
         Revenue_usd |-> Round0(rows[k].Revenue)]]

\* Series.idxmax() over the positions 1..Len: of equal maxima the first
RECURSIVE RevenueIdxMax(_, _, _)
RevenueIdxMax(rows, i, best) ==
    IF i > Len(rows) THEN best
    ELSE RevenueIdxMax(rows, i + 1,
            IF IntLess(rows[best].Revenue, rows[i].Revenue) THEN i ELSE best)

RECURSIVE SellThroughIdxMax(_, _, _)
SellThroughIdxMax(rows, i, best) ==
    IF i > Len(rows) THEN best
    ELSE SellThroughIdxMax(rows, i + 1,
            IF FracLess(rows[best].Sell_through, rows[i].Sell_through)
            THEN i ELSE best)

\* lines 315-316: prod_metrics.loc[prod_metrics[col].idxmax(), "Stage"]
BestRevenueStage(prod_metrics) ==
    prod_metrics[RevenueIdxMax(prod_metrics, 1, 1)].Stage

BestSellThroughStage(prod_metrics) ==
    prod_metrics[SellThroughIdxMax(prod_metrics, 1, 1)].Stage

\* lines 228-284: the selection of the product and its info panel
Tab2Select ==
    /\ pc = "tab2"
    /\ IF Empty(filtered_df)
       THEN /\ info' = info \cup {"No products for the selected filters."}
            /\ tab2' = [shown |-> FALSE]
            /\ pc' = "done"
       ELSE \E sel_cat \in {"All"} \cup Unique(filtered_df, "Category"),
               sel_brand \in {"All"} \cup Unique(filtered_df, "Brand") :
                LET prod_subset == ProdSubset(filtered_df, sel_cat, sel_brand)
                IN  IF Empty(prod_subset)
                    THEN /\ info' = info \cup
                                {"No products after applying category/brand filters."}
                         /\ tab2' = [shown |-> FALSE]
                         /\ pc' = "done"
                    ELSE \E selected_label \in
                              {product_label(prod_subset[i]) : i \in 1..Len(prod_subset)} :
                            /\ tab2' = [shown |-> TRUE,
                                        sel_cat |-> sel_cat,
                                        sel_brand |-> sel_brand,
                                        selected_label |-> selected_label,
                                        row |-> FirstWithLabel(prod_subset, selected_label),
                                        prod_metrics |-> <<>>,
                                        best |-> <<>>]
                            /\ info' = info
                            /\ pc' = "metrics"
    /\ UNCHANGED <<csv, df, metrics_long, selected_categories, selected_seasons,
                   filtered_df, filtered_long, highlight, tab1, raised>>

\* lines 289-326: the product's stage table and its best stages
Tab2Metrics ==
    /\ pc = "metrics"
    /\ LET prod_metrics ==
               WithDisplayColumns(SortByStage(LookupMetrics(metrics_long, tab2.row)))
       IN  IF Empty(prod_metrics)
           THEN \* idxmax of an empty Series
                /\ tab2' = [tab2 EXCEPT !.prod_metrics = prod_metrics]
                /\ raised' = "ValueError"
           ELSE /\ tab2' = [tab2 EXCEPT
                              !.prod_metrics = prod_metrics,
                              !.best = <<BestRevenueStage(prod_metrics),
                                         BestSellThroughStage(prod_metrics)>>]
                /\ raised' = raised
    /\ pc' = "done"
    /\ UNCHANGED <<csv, df, metrics_long, selected_categories, selected_seasons,
                   filtered_df, filtered_long, highlight, tab1, info>>

Next == Load \/ Filter \/ Highlight \/ Tab1 \/ Tab2Select \/ Tab2Metrics

Spec == Init /\ [][Next]_vars

(***************************************************************************)
(* The drill-down of lines 289-326 on its own: a selected catalog row and  *)
(* a StageMetric table that need not hold the row's product (the table of  *)
(* another catalog of at most one product).                                *)
(***************************************************************************)
InitDrill ==
    /\ pc = "metrics"
    /\ \E r \in RowDomain, other \in Catalogs :
        /\ Len(other) <= 1
        /\ csv = <<ProductRecord(r, 1)>>
        /\ metrics_long = compute_stage_metrics(other)
        /\ tab2 = [shown |-> TRUE, sel_cat |-> "All", sel_brand |-> "All",
                   selected_label |-> product_label(r),
                   row |-> ProductRecord(r, 1),
                   prod_metrics |-> <<>>, best |-> <<>>]
        /\ selected_categories = {r.Category}
        /\ selected_seasons = {r.Season}
    /\ df = csv
    /\ filtered_df = csv
    /\ filtered_long = FilterLong(metrics_long, selected_categories, selected_seasons)
    /\ highlight = [shown |-> FALSE]
    /\ tab1 = [shown |-> FALSE]
    /\ info = {}
    /\ raised = "none"

SpecDrill == InitDrill /\ [][Tab2Metrics]_vars

(***************************************************************************)
(* Helpers of the properties.                                              *)
(***************************************************************************)
Loaded == pc # "load"

Filtered == pc \notin {"load", "filter"}

AfterHighlight == pc \in {"tab1", "tab2", "metrics", "done"}

AfterTab1 == pc \in {"tab2", "metrics", "done"}

\* the number of stage s in the order M1 < M2 < M3 < M4
StageIdx(s) == CHOOSE i \in 1..4 : Stages[i] = s

\* the row of metrics_long for product i of df at stage j
MetricOf(i, j) == metrics_long[4 * (i - 1) + j]

\* the total revenue of the rows of filtered_long at stage s
StageTotal(s) ==
    LET InStage(r) == r.Stage = s IN SumRevenue(SelectSeq(filtered_long, InStage))

\* the total revenue of the rows of filtered_long of category c at stage s
CellTotal(c, s) ==
    LET InCell(r) == r.Category = c /\ r.Stage = s
    IN  SumRevenue(SelectSeq(filtered_long, InCell))

RECURSIVE SumOver(_, _)
SumOver(f, keys) ==
    IF keys = {} THEN 0
    ELSE LET k == CHOOSE x \in keys : TRUE IN f[k] + SumOver(f, keys \ {k})

\* the five displayed columns of a table's rows
Displayed(rows) ==
    [k \in 1..Len(rows) |->
        [Stage |-> rows[k].Stage, Markdown |-> rows[k].Markdown,
         Sales |-> rows[k].Sales, Revenue |-> rows[k].Revenue,
         Sell_through |-> rows[k].Sell_through]]

\* the four stage rows of the catalog row shown in the product info panel
OwnRows == compute_stage_metrics(<<tab2.row>>)

\* stage s is the lowest-numbered stage of the greatest revenue among OwnRows
OwnBestRevenue(s) ==
    \E k \in 1..4 :
        /\ Stages[k] = s
        /\ \A j \in 1..4 : OwnRows[j].Revenue <= OwnRows[k].Revenue
        /\ \A j \in 1..(k - 1) : OwnRows[j].Revenue < OwnRows[k].Revenue

OwnBestSellThrough(s) ==
    \E k \in 1..4 :
        /\ Stages[k] = s
        /\ \A j \in 1..4 : ~FracLess(OwnRows[k].Sell_through, OwnRows[j].Sell_through)
        /\ \A j \in 1..(k - 1) : FracLess(OwnRows[j].Sell_through, OwnRows[k].Sell_through)

(***************************************************************************)
(* The properties.                                                         *)
(***************************************************************************)

\* C1: filter and expand commute: the StageMetric rows kept by the filter
\* are the expansion of the catalog rows kept by the same filter (the four
\* stage rows of each product of filtered_df and of no other product), and a
\* row of metrics_long is kept exactly when its category and its season are
\* selected.
C1_FilterExpandCommute ==
    Filtered =>
        /\ filtered_long = compute_stage_metrics(filtered_df)
        /\ \A i \in 1..Len(metrics_long) :
             (\E k \in 1..Len(filtered_long) : filtered_long[k] = metrics_long[i])
             <=> (/\ metrics_long[i].Category \in selected_categories
                  /\ metrics_long[i].Season \in selected_seasons)

C1_Witness ==
    /\ Filtered
    /\ Len(filtered_df) = 1
    /\ Len(df) = 2
    /\ df[1].Category = df[2].Category
    /\ df[1].Season # df[2].Season

\* C2: the expansion of a catalog of n records has 4 * n rows: record i
\* gives the rows 4i-3 .. 4i, for the stages M1, M2, M3, M4 in that order,
\* each built from the fields of record i alone.
C2_ExpansionCardinality ==
    Loaded =>
        /\ Len(metrics_long) = 4 * Len(df)
        /\ \A i \in 1..Len(df) : \A j \in 1..4 :
            /\ MetricOf(i, j).Stage = Stages[j]
            /\ MetricOf(i, j).Product_ID = df[i].Product_ID
            /\ MetricOf(i, j).Product_Name = df[i].Product_Name
            /\ MetricOf(i, j).Brand = df[i].Brand
            /\ MetricOf(i, j).Category = df[i].Category
            /\ MetricOf(i, j).Season = df[i].Season
            /\ MetricOf(i, j).Markdown = df[i].Markdown[j]
            /\ MetricOf(i, j).Sales = df[i].Sales_After[j]

C2_Witness ==
    /\ Loaded
    /\ Len(df) = 2
    /\ Len(metrics_long) = 8
    /\ df[1] # df[2]

\* C3: the row of a product at stage i has revenue = original_price *
\* (1 - markdown_i) * sales_after_i (in hundredths) and sell_through =
\* sales_after_i / stock_level when stock_level > 0; with stock_level = 0
\* the sell_through is 0 and nothing is raised.  The worked example: price
\* 100, markdown 0.2, sales 50, stock 200 give revenue 4000 and
\* sell_through 1/4.
C3_RevenueAndSellThrough ==
    Loaded =>
        /\ raised = "none"
        /\ \A i \in 1..Len(df) : \A j \in 1..4 :
            LET rec == df[i]
                m == MetricOf(i, j)
            IN  /\ m.Revenue = rec.Original_Price * (100 - rec.Markdown[j]) * rec.Sales_After[j]
                /\ rec.Stock_Level > 0 =>
                     /\ m.Sell_through.den > 0
                     /\ m.Sell_through.num * rec.Stock_Level
                          = rec.Sales_After[j] * m.Sell_through.den
                /\ rec.Stock_Level = 0 => m.Sell_through = [num |-> 0, den |-> 1]
                /\ (/\ rec.Original_Price = 100 /\ rec.Markdown[j] = 20
                    /\ rec.Sales_After[j] = 50 /\ rec.Stock_Level = 200)
                   => /\ m.Revenue = 4000 * 100
                      /\ m.Sell_through = [num |-> 1, den |-> 4]

C3_Witness ==
    /\ Loaded
    /\ Len(df) = 2
    /\ df[1].Stock_Level = 0
    /\ df[1].Sales_After[1] > 0
    /\ df[2].Stock_Level = 200
    /\ MetricOf(2, 1).Revenue = 400000

\* C4: the group sums of revenue by (Category, Stage) add up to the total
\* revenue of the filtered StageMetric rows.
C4_RevenueConserved ==
    tab1.shown =>
        SumOver(tab1.rev_by_cat_stage, DOMAIN tab1.rev_by_cat_stage)
            = SumRevenue(filtered_long)

C4_Witness ==
    /\ tab1.shown
    /\ Len(filtered_df) = 2
    /\ filtered_df[1].Category = filtered_df[2].Category
    /\ Cardinality(DOMAIN tab1.rev_by_cat_stage) = 4

\* C5: the best revenue stage and the best sell-through stage reported for
\* the selected product are the lowest-numbered stages of the greatest
\* revenue and the greatest sell-through among that product's own four
\* stage rows.
C5_BestStagePerProduct ==
    (pc = "done" /\ tab2.shown /\ raised = "none") =>
        /\ OwnBestRevenue(tab2.best[1])
        /\ OwnBestSellThrough(tab2.best[2])

\* C6: when the filtered StageMetric set is not empty the highlight is
\* shown, its best stage has the greatest total revenue of the four stages,
\* every lower-numbered stage has a strictly smaller total, and the revenue
\* shown is that stage's total.
C6_BestStageOverall ==
    (AfterHighlight /\ ~Empty(filtered_long)) =>
        /\ highlight.shown
        /\ highlight.best_stage \in StageSet
        /\ \A s \in StageSet : StageTotal(s) <= StageTotal(highlight.best_stage)
        /\ \A s \in StageSet :
             StageIdx(s) < StageIdx(highlight.best_stage)
                => StageTotal(s) < StageTotal(highlight.best_stage)
        /\ highlight.best_stage_rev = StageTotal(highlight.best_stage)

C6_Witness ==
    /\ AfterHighlight
    /\ highlight.shown
    /\ highlight.best_stage = "M1"
    /\ StageTotal("M1") = StageTotal("M3")
    /\ StageTotal("M1") > 0

\* C7: with an empty filtered set nothing is raised: the highlight is
\* skipped, the dashboard tab shows "No data for the selected filters." and
\* no table, and the drill-down tab shows "No products for the selected
\* filters." and no product.
C7_EmptyIsNoData ==
    (Filtered /\ Empty(filtered_long)) =>
        /\ raised = "none"
        /\ AfterHighlight => ~highlight.shown
        /\ AfterTab1 =>
             /\ ~tab1.shown
             /\ "No data for the selected filters." \in info
        /\ pc \in {"metrics", "done"} =>
             /\ pc = "done"
             /\ ~tab2.shown
             /\ "No products for the selected filters." \in info

C7_Witness ==
    /\ pc = "done"
    /\ Empty(filtered_long)
    /\ Len(df) = 2
    /\ selected_categories # {}
    /\ selected_seasons # {}
    /\ info = {"No data for the selected filters.",
               "No products for the selected filters."}

C10_DrillDownOwnRows ==
    (pc = "done" /\ tab2.shown) =>
        Displayed(tab2.prod_metrics) = Displayed(OwnRows)
====
